---- MODULE Spec2Model ----
(***************************************************************************)
(* Model of blur_spots.py: the spot tracking and inpainting pipeline.      *)
(*                                                                         *)
(* Coordinates are integers.  The code stores centers as Python floats,    *)
(* but every value it stores is integral (float(int)), so int() and        *)
(* round() are the identity on them.  Correlation scores are in tenths:    *)
(* 10 stands for 1.0.                                                      *)
(*                                                                         *)
(* A frame is abstracted to what the tracker can observe of it: the        *)
(* displacement (dx, dy) of the scene against the reference frame and the  *)
(* best normalized correlation score sc the matcher reports on it.         *)
(***************************************************************************)
EXTENDS Integers, Sequences, FiniteSets, TLC

VARIABLES
    pc,              \* position of main()
    exit,            \* how main() returned
    video,           \* the input file: whether it opens, how many frames it has
    data,            \* the spot-definition file (json.load)
    args,            \* the parsed command line
    cap,             \* cv2.VideoCapture: state and position
    writer,          \* cv2.VideoWriter: state
    spot_templates,  \* the tracks
    frame,           \* the frame read by the current loop iteration
    out,             \* the frame about to be written
    written,         \* the frames written to the output, in order
    frame_idx,       \* the loop's frame counter
    conf,            \* max_shift and match_threshold as the loop uses them
    pre,             \* history: spot_templates before the last frame's updates
    info,            \* history: what each tracker update of the last frame did
    still,           \* history: every processed frame was the reference frame
    solo,            \* shadow: each spot tracked alone on the same frames
    twin,            \* shadow: the same run with the debug flag flipped, and
                     \* with another fill configuration
    steps,           \* history: the stages main() went through
    mark             \* mark_spots.py: its globals, main()'s position, the
                     \* spot file it wrote, and the radius at each click

vars == <<pc, exit, video, data, args, cap, writer, spot_templates, frame, out,
          written, frame_idx, conf, pre, info, still, solo, twin, steps,
          mark>>

----------------------------------------------------------------------------
(* Bounds and inputs *)

MaxFrames == 2
MaxSpots == 2

width == 14
height == 12

margin == 4
ScoreOne == 10
\* --darken is in tenths as well: 10 stands for 1.0
DarkenOne == 10

Max(a, b) == IF a >= b THEN a ELSE b
Min(a, b) == IF a <= b THEN a ELSE b

\* Spot definitions: unclipped; clipped by the left and bottom edges (odd
\* template sides); center left of the frame, box overlapping it; box
\* entirely left of the frame; box entirely above the frame.
SpotDefs ==
    { [x |-> 6,  y |-> 6,  radius |-> 1],
      [x |-> 3,  y |-> 9,  radius |-> 2],
      [x |-> -4, y |-> 6,  radius |-> 1],
      [x |-> -9, y |-> 6,  radius |-> 1],
      [x |-> 6,  y |-> -5, radius |-> 1] }

SpotLists == UNION { [1..n -> SpotDefs] : n \in 0..MaxSpots }

Shifts == { <<0, 0>>, <<1, 0>>, <<0, -1>>, <<3, 1>> }
Scores == { 0, 5, ScoreOne }

NoFrame == [id |-> -1, dx |-> 0, dy |-> 0, sc |-> 0]
Frames(i) == { [id |-> i, dx |-> s[1], dy |-> s[2], sc |-> c] :
               s \in Shifts, c \in Scores }
\* The frame the templates were cut from: no displacement, perfect score.
RefFrame(i) == [id |-> i, dx |-> 0, dy |-> 0, sc |-> ScoreOne]

\* Channel values sampled from the inpainted frame.
Pixels == { 0, 1, 3, 128, 255 }
Unchanged == [v \in Pixels |-> v]

\* A frame handed to the writer: which input frame it was made from, whether
\* it went through cv2.inpaint, the mask, the value written at a pixel under
\* the mask and at a pixel outside it as a function of the pixel's inpainted
\* value, and the outline circles drawn on it.
NoFill == [radius |-> 0, flags |-> "none"]
NoOut == [id |-> -1, inpainted |-> FALSE, fill |-> NoFill, mask |-> {},
          under |-> Unchanged, outside |-> Unchanged, circles |-> {}]

----------------------------------------------------------------------------
(* numpy basic slicing a[lo:hi] on an axis of length n: a negative index   *)
(* counts from the end, and both ends are then clipped into 0..n.          *)

SliceIndex(i, n) == IF i < 0 THEN Max(0, i + n) ELSE Min(i, n)
SliceLen(lo, hi, n) == Max(0, SliceIndex(hi, n) - SliceIndex(lo, n))

----------------------------------------------------------------------------
(* build_spot_templates: one track per spot whose template slice is not    *)
(* empty.  The template image is represented by the place in the reference *)
(* frame its slice starts at; its content is the reference content there.  *)

\* half_size = r + margin
HalfSize_NoMargin(r) == r
HalfSize(r) == r + margin

SpotTemplate(s, w, h) ==
    LET cx0 == s.x
        cy0 == s.y
        r == s.radius
        half_size == HalfSize(r)
        x1 == Max(0, cx0 - half_size)
        y1 == Max(0, cy0 - half_size)
        x2 == Min(w, cx0 + half_size)
        y2 == Min(h, cy0 + half_size)
    IN  [radius |-> r,
         template |-> [x |-> SliceIndex(x1, w), y |-> SliceIndex(y1, h)],
         templ_w |-> SliceLen(x1, x2, w),
         templ_h |-> SliceLen(y1, y2, h),
         origin_cx |-> cx0,
         origin_cy |-> cy0,
         last_cx |-> cx0,
         last_cy |-> cy0,
         alive |-> TRUE]

\* templ_proc.size of the sliced array
TemplateSize(t) == t.templ_w * t.templ_h

RECURSIVE build_spot_templates(_, _, _)
build_spot_templates(spots, w, h) ==
    IF spots = <<>> THEN <<>>
    ELSE LET t == SpotTemplate(Head(spots), w, h)
             rest == build_spot_templates(Tail(spots), w, h)
         IN  IF TemplateSize(t) = 0 THEN rest ELSE <<t>> \o rest

----------------------------------------------------------------------------
(* cv2.matchTemplate followed by cv2.minMaxLoc on a roi that starts at     *)
(* (roi_x1, roi_y1) and is roi_w x roi_h.  The result array has one entry  *)
(* for each placement of the template inside the roi.  The content the     *)
(* template was cut from sits displaced by (dx, dy) in this frame; when    *)
(* that placement is inside the roi it is the best match, otherwise the    *)
(* best match is the placement nearest to it.  The score is the frame's.   *)

MatchTemplate(spot, f, roi_x1, roi_y1, roi_w, roi_h) ==
    LET res_w == roi_w - spot.templ_w + 1
        res_h == roi_h - spot.templ_h + 1
        u0 == spot.template.x + f.dx - roi_x1
        v0 == spot.template.y + f.dy - roi_y1
    IN  [max_val |-> f.sc,
         u |-> Max(0, Min(u0, res_w - 1)),
         v |-> Max(0, Min(v0, res_h - 1)),
         true_match |-> /\ 0 <= u0 /\ u0 <= res_w - 1
                        /\ 0 <= v0 /\ v0 <= res_h - 1]

NoMatch == [max_val |-> 0, u |-> 0, v |-> 0, true_match |-> FALSE]

----------------------------------------------------------------------------
(* track_spot_on_frame.  TrackStep gives the updated spot together with    *)
(* what the call did: the roi it cut, whether it ran the matcher, the      *)
(* matcher's answer and the outcome.  Calling the matcher with a roi       *)
(* smaller than the template raises cv2.error.                             *)

RoiTooSmall(roi_w, roi_h, templ_w, templ_h) ==
    roi_h < templ_h \/ roi_w < templ_w

\* If ROI is too small to contain the template, keep previous center: return
KeepCenter_Nudged(spot) == [spot EXCEPT !.last_cx = @ + 1]
KeepCenter(spot) == spot

WeakMatch_Inclusive(max_val, match_threshold) == max_val <= match_threshold
WeakMatch(max_val, match_threshold) == max_val < match_threshold

\* cx_new = roi_x1 + u + half_w
MatchCenter_NoOffset(roi_1, off, half) == roi_1 + half
MatchCenter_FullSize(roi_1, off, half) == roi_1 + off + 2 * half
MatchCenter(roi_1, off, half) == roi_1 + off + half

\* The global limit on the distance from the origin: the block is commented
\* out in the source, so no center is ever too far.
GlobalLimit_Enforced(c_new, origin, max_shift) ==
    c_new - origin > max_shift \/ origin - c_new > max_shift
GlobalLimit(c_new, origin, max_shift) == FALSE

TrackStep(spot, f, w, h, max_shift, match_threshold) ==
    LET templ_h == spot.templ_h
        templ_w == spot.templ_w
        cx_prev == spot.last_cx
        cy_prev == spot.last_cy
        half_w == templ_w \div 2
        half_h == templ_h \div 2
        lo_x == cx_prev - half_w - max_shift
        lo_y == cy_prev - half_h - max_shift
        hi_x == cx_prev + half_w + max_shift
        hi_y == cy_prev + half_h + max_shift
        roi_x1 == Max(0, lo_x)
        roi_y1 == Max(0, lo_y)
        roi_x2 == Min(w, hi_x)
        roi_y2 == Min(h, hi_y)
        roi_w == SliceLen(roi_x1, roi_x2, w)
        roi_h == SliceLen(roi_y1, roi_y2, h)
        geo == [cx_new |-> cx_prev, cy_new |-> cy_prev,
                lo_x |-> lo_x, lo_y |-> lo_y, hi_x |-> hi_x, hi_y |-> hi_y,
                roi_x1 |-> roi_x1, roi_y1 |-> roi_y1,
                roi_w |-> roi_w, roi_h |-> roi_h,
                max_shift |-> max_shift, match_threshold |-> match_threshold]
        m == MatchTemplate(spot, f, roi_x1, roi_y1, roi_w, roi_h)
        cx_new == MatchCenter(roi_x1, m.u, half_w)
        cy_new == MatchCenter(roi_y1, m.v, half_h)
        cx_clamped == Max(0, Min(cx_new, w - 1))
        cy_clamped == Max(0, Min(cy_new, h - 1))
    IN  IF ~spot.alive
        THEN [spot |-> spot, called |-> FALSE, matched |-> FALSE, m |-> NoMatch,
              roi |-> geo, outcome |-> "skip"]
        ELSE IF RoiTooSmall(roi_w, roi_h, templ_w, templ_h)
        THEN [spot |-> KeepCenter(spot), called |-> TRUE, matched |-> FALSE,
              m |-> NoMatch, roi |-> geo, outcome |-> "hold"]
        ELSE IF roi_w < templ_w \/ roi_h < templ_h
        THEN [spot |-> spot, called |-> TRUE, matched |-> TRUE, m |-> NoMatch,
              roi |-> geo, outcome |-> "error"]
        ELSE IF WeakMatch(m.max_val, match_threshold)
        THEN [spot |-> spot, called |-> TRUE, matched |-> TRUE, m |-> m,
              roi |-> geo, outcome |-> "hold"]
        ELSE IF \/ GlobalLimit(cx_clamped, spot.origin_cx, max_shift)
                \/ GlobalLimit(cy_clamped, spot.origin_cy, max_shift)
        THEN [spot |-> [spot EXCEPT !.alive = FALSE],
              called |-> TRUE, matched |-> TRUE, m |-> m,
              roi |-> [geo EXCEPT !.cx_new = cx_new, !.cy_new = cy_new],
              outcome |-> "kill"]
        ELSE [spot |-> [spot EXCEPT
                          !.last_cx = cx_clamped,
                          !.last_cy = cy_clamped],
              called |-> TRUE, matched |-> TRUE, m |-> m,
              roi |-> [geo EXCEPT !.cx_new = cx_new, !.cy_new = cy_new],
              outcome |-> "accept"]

track_spot_on_frame(spot, f, w, h, max_shift, match_threshold) ==
    TrackStep(spot, f, w, h, max_shift, match_threshold).spot

----------------------------------------------------------------------------
(* The per-frame loop over the tracks (main, the for loop).                *)

\* Each track searched around the center the track before it ended on.
UpdateSpots_Shared(tracks, f, w, h, max_shift, match_threshold) ==
    [k \in DOMAIN tracks |->
        TrackStep(IF k = 1 THEN tracks[k]
                  ELSE [tracks[k] EXCEPT !.last_cx = tracks[k - 1].last_cx,
                                         !.last_cy = tracks[k - 1].last_cy],
                  f, w, h, max_shift, match_threshold)]

UpdateSpots(tracks, f, w, h, max_shift, match_threshold) ==
    [k \in DOMAIN tracks |->
        TrackStep(tracks[k], f, w, h, max_shift, match_threshold)]

SpotsOf(upd) == [k \in DOMAIN upd |-> upd[k].spot]

\* The disks cv2.circle stamps into the mask: one per track alive after its
\* update, at its rounded center.
MaskOf(tracks) ==
    { <<tracks[k].last_cx, tracks[k].last_cy, tracks[k].radius>> :
        k \in { j \in DOMAIN tracks : tracks[j].alive } }

ActiveSpots(tracks) == Cardinality({ k \in DOMAIN tracks : tracks[k].alive })

\* np.clip(region * darken, 0, 255).astype(np.uint8) on one channel value.
\* For a darken factor in tenths below 1.0 the float32 product truncates to
\* the same integer as the exact product, for every value 0..255.
DarkenPixel_NoClip(v, darken) == (v * darken) \div DarkenOne
DarkenPixel(v, darken) ==
    Max(0, Min(255 * DarkenOne, v * darken)) \div DarkenOne

\* The loop body for one frame: the tracker updates, the mask, cv2.inpaint,
\* the darkening and the debug overlay.
LoopBody_DebugInMask(tracks, f, w, h, cf, a) ==
    LET upd == UpdateSpots(tracks, f, w, h, cf.max_shift, cf.match_threshold)
        new == SpotsOf(upd)
        active_spots == ActiveSpots(new)
        debug_circles == IF a.debug THEN MaskOf(new) ELSE {}
        mask == MaskOf(new) \cup { <<c[1], c[2], c[3] + 2>> : c \in debug_circles }
    IN  [upd |-> upd, tracks |-> new, active_spots |-> active_spots,
         out |-> [id |-> f.id,
                  inpainted |-> active_spots > 0,
                  fill |-> IF active_spots > 0
                           THEN [radius |-> cf.inpaint_radius,
                                 flags |-> cf.inpaint_flag]
                           ELSE NoFill,
                  mask |-> mask,
                  under |-> IF active_spots > 0 /\ a.darken < DarkenOne
                            THEN [v \in Pixels |-> DarkenPixel(v, a.darken)]
                            ELSE Unchanged,
                  outside |-> Unchanged,
                  circles |-> debug_circles]]

LoopBody_TrackOnOutput(tracks, f, w, h, cf, a) ==
    LET seen == IF a.darken < DarkenOne
                THEN [f EXCEPT !.sc = (f.sc * Max(0, a.darken)) \div DarkenOne]
                ELSE f
        upd == UpdateSpots(tracks, seen, w, h, cf.max_shift, cf.match_threshold)
        new == SpotsOf(upd)
        active_spots == ActiveSpots(new)
        mask == MaskOf(new)
        debug_circles == IF a.debug THEN MaskOf(new) ELSE {}
    IN  [upd |-> upd, tracks |-> new, active_spots |-> active_spots,
         out |-> [id |-> f.id,
                  inpainted |-> active_spots > 0,
                  fill |-> IF active_spots > 0
                           THEN [radius |-> cf.inpaint_radius,
                                 flags |-> cf.inpaint_flag]
                           ELSE NoFill,
                  mask |-> mask,
                  under |-> IF active_spots > 0 /\ a.darken < DarkenOne
                            THEN [v \in Pixels |-> DarkenPixel(v, a.darken)]
                            ELSE Unchanged,
                  outside |-> Unchanged,
                  circles |-> debug_circles]]

LoopBody(tracks, f, w, h, cf, a) ==
    LET upd == UpdateSpots(tracks, f, w, h, cf.max_shift, cf.match_threshold)
        new == SpotsOf(upd)
        active_spots == ActiveSpots(new)
        mask == MaskOf(new)
        debug_circles == IF a.debug THEN MaskOf(new) ELSE {}
    IN  [upd |-> upd, tracks |-> new, active_spots |-> active_spots,
         out |-> [id |-> f.id,
                  inpainted |-> active_spots > 0,
                  fill |-> IF active_spots > 0
                           THEN [radius |-> cf.inpaint_radius,
                                 flags |-> cf.inpaint_flag]
                           ELSE NoFill,
                  mask |-> mask,
                  under |-> IF active_spots > 0 /\ a.darken < DarkenOne
                            THEN [v \in Pixels |-> DarkenPixel(v, a.darken)]
                            ELSE Unchanged,
                  outside |-> Unchanged,
                  circles |-> debug_circles]]

----------------------------------------------------------------------------
(* main() *)

NoConf == [max_shift |-> 0, match_threshold |-> 0,
           inpaint_radius |-> 0, inpaint_flag |-> "none"]

\* width != frame_width_json or height != frame_height_json
ResolutionMismatch_WidthOnly(w, h, json_w, json_h) == w # json_w
ResolutionMismatch(w, h, json_w, json_h) == w # json_w \/ h # json_h

\* if not spot_templates
NoTemplates_Unchecked(tracks) == FALSE
NoTemplates(tracks) == tracks = <<>>

\* cap.release()
ReleaseCap_Leak(c) == c
ReleaseCap(c) == [c EXCEPT !.state = "released"]

\* cap.set(cv2.CAP_PROP_POS_FRAMES, 0)
SeekStart_Skipped(c) == c
SeekStart(c) == [c EXCEPT !.pos = 0]

\* max_shift = max(1, args.max_shift)
CoerceMaxShift_Raw(a) == a
CoerceMaxShift(a) == Max(1, a)

\* match_threshold = max(0.0, min(1.0, args.match_threshold))
CoerceThreshold(a) == Max(0, Min(ScoreOne, a))

\* inpaint_flag = cv2.INPAINT_TELEA if args.inpaint_method == "telea" else
\* cv2.INPAINT_NS
InpaintFlag(method) == IF method = "telea" THEN "INPAINT_TELEA" ELSE "INPAINT_NS"

\* The locals main() sets from the command line before the loop.
Configure(a) ==
    [max_shift |-> CoerceMaxShift(a.max_shift),
     match_threshold |-> CoerceThreshold(a.match_threshold),
     inpaint_radius |-> a.inpaint_radius,
     inpaint_flag |-> InpaintFlag(a.inpaint_method)]

\* Another fill configuration for the same run: the defaults, or for the
\* defaults a darkening fill with the other method and radius.
FillDefaults == [darken |-> DarkenOne, inpaint_radius |-> 3,
                 inpaint_method |-> "telea"]
FillOf(a) == [darken |-> a.darken, inpaint_radius |-> a.inpaint_radius,
              inpaint_method |-> a.inpaint_method]
OtherFill(a) ==
    IF FillOf(a) # FillDefaults
    THEN [a EXCEPT !.darken = FillDefaults.darken,
                   !.inpaint_radius = FillDefaults.inpaint_radius,
                   !.inpaint_method = FillDefaults.inpaint_method]
    ELSE [a EXCEPT !.darken = 5, !.inpaint_radius = 5, !.inpaint_method = "ns"]

\* mark_spots.py not running.
NoFile == [frame_index |-> -1, frame_width |-> 0, frame_height |-> 0,
           spots |-> <<>>]
NoMark == [pc |-> "idle", frame_index |-> 0, spots |-> <<>>,
           current_radius |-> 0, mouse_x |-> -1, mouse_y |-> -1,
           file |-> NoFile, clicked |-> <<>>]

\* The state main() starts in, for given sets of videos, spot files and
\* command lines.
InitWith(videos, datas, argsets) ==
    /\ video \in videos
    /\ data \in datas
    /\ args \in argsets
    /\ twin = [tracks |-> <<>>, mask |-> {}, fill |-> <<>>]
    /\ mark = NoMark
    /\ pc = "open"
    /\ exit = "none"
    /\ cap = [state |-> "none", pos |-> 0]
    /\ writer = "none"
    /\ spot_templates = <<>>
    /\ frame = NoFrame
    /\ out = NoOut
    /\ written = <<>>
    /\ frame_idx = 0
    /\ conf = NoConf
    /\ pre = <<>>
    /\ info = <<>>
    /\ still = TRUE
    /\ solo = <<>>
    /\ steps = <<>>

\* Any video and spot file, the tracking options varied, the fill options
\* at their defaults (--darken 1.0, no --debug).
Init ==
    InitWith([opens : BOOLEAN, nframes : 0..MaxFrames],
             [spots : SpotLists,
              frame_width : {width, width + 1},
              frame_height : {height, height - 1},
              frame_index : 0..(MaxFrames - 1)],
             [max_shift : {0, 2}, match_threshold : {5, 15},
              darken : {DarkenOne}, debug : {FALSE},
              inpaint_radius : {3}, inpaint_method : {"telea"}])

Return(how) ==
    /\ pc' = "done"
    /\ exit' = how

\* cap = cv2.VideoCapture(video_path); if not cap.isOpened(): return
Open ==
    /\ pc = "open"
    /\ mark' = mark
    /\ steps' = Append(steps, "open")
    /\ IF ~video.opens
       THEN /\ cap' = [state |-> "failed", pos |-> 0]
            /\ Return("fatal_open")
       ELSE /\ cap' = [state |-> "open", pos |-> 0]
            /\ pc' = "validate"
            /\ exit' = exit
    /\ UNCHANGED <<video, data, args, writer, spot_templates, frame, out,
                   written, frame_idx, conf, pre, info, still, solo, twin>>

\* the resolution check against the JSON metadata
Validate ==
    /\ pc = "validate"
    /\ mark' = mark
    /\ steps' = Append(steps, "validate")
    /\ IF ResolutionMismatch(width, height, data.frame_width, data.frame_height)
       THEN /\ cap' = ReleaseCap(cap)
            /\ Return("fatal_resolution")
       ELSE /\ cap' = cap
            /\ pc' = "refread"
            /\ exit' = exit
    /\ UNCHANGED <<video, data, args, writer, spot_templates, frame, out,
                   written, frame_idx, conf, pre, info, still, solo, twin>>

\* cap.set(CAP_PROP_POS_FRAMES, ref_frame_idx); ok, ref_frame = cap.read()
ReferenceRead ==
    /\ pc = "refread"
    /\ mark' = mark
    /\ steps' = Append(steps, "refread")
    /\ LET ref_frame_idx == data.frame_index
           ok == ref_frame_idx < video.nframes
       IN  IF ~ok
           THEN /\ cap' = ReleaseCap([cap EXCEPT !.pos = ref_frame_idx])
                /\ Return("fatal_reference")
           ELSE /\ cap' = [cap EXCEPT !.pos = ref_frame_idx + 1]
                /\ pc' = "build"
                /\ exit' = exit
    /\ UNCHANGED <<video, data, args, writer, spot_templates, frame, out,
                   written, frame_idx, conf, pre, info, still, solo, twin>>

\* spot_templates = build_spot_templates(...); if not spot_templates: return
Build ==
    /\ pc = "build"
    /\ mark' = mark
    /\ steps' = Append(steps, "build")
    /\ spot_templates' = build_spot_templates(data.spots, width, height)
    /\ solo' = [i \in DOMAIN data.spots |->
                  build_spot_templates(<<data.spots[i]>>, width, height)]
    /\ twin' = [twin EXCEPT !.tracks = spot_templates',
                             !.fill = spot_templates']
    /\ IF NoTemplates(spot_templates')
       THEN /\ cap' = ReleaseCap(cap)
            /\ Return("nothing_to_do")
       ELSE /\ cap' = cap
            /\ pc' = "rewind"
            /\ exit' = exit
    /\ UNCHANGED <<video, data, args, writer, frame, out, written, frame_idx,
                   conf, pre, info, still>>

\* cap.set(CAP_PROP_POS_FRAMES, 0); writer = cv2.VideoWriter(...); the
\* coercion of --max-shift and --match-threshold
Rewind ==
    /\ pc = "rewind"
    /\ mark' = mark
    /\ steps' = Append(steps, "rewind")
    /\ cap' = SeekStart(cap)
    /\ writer' = "open"
    /\ frame_idx' = 0
    /\ conf' = Configure(args)
    /\ pc' = "read"
    /\ UNCHANGED <<exit, video, data, args, spot_templates, frame, out,
                   written, pre, info, still, solo, twin>>

\* ret, frame = cap.read(); if not ret: break
\* The frame at the reference index is the frame the templates were cut from.
CapRead ==
    /\ pc = "read"
    /\ mark' = mark
    /\ IF cap.pos < video.nframes
       THEN /\ frame' \in (IF cap.pos = data.frame_index
                           THEN {RefFrame(cap.pos)}
                           ELSE Frames(cap.pos))
            /\ cap' = [cap EXCEPT !.pos = cap.pos + 1]
            /\ pc' = "process"
       ELSE /\ frame' = NoFrame
            /\ cap' = cap
            /\ pc' = "close"
    /\ UNCHANGED <<exit, video, data, args, writer, spot_templates, out,
                   written, frame_idx, conf, pre, info, still, solo, twin, steps>>

\* the loop body up to the frame handed to the writer
ProcessFrame ==
    /\ pc = "process"
    /\ mark' = mark
    /\ \E body \in {LoopBody(spot_templates, frame, width, height, conf, args)},
          other \in {LoopBody(twin.tracks, frame, width, height, conf,
                             [args EXCEPT !.debug = ~args.debug])},
          refill \in {LoopBody(twin.fill, frame, width, height,
                              Configure(OtherFill(args)), OtherFill(args))} :
       LET upd == body.upd
       IN  /\ pre' = spot_templates
           /\ info' = upd
           /\ spot_templates' = body.tracks
           /\ twin' = [tracks |-> other.tracks, mask |-> other.out.mask,
                       fill |-> refill.tracks]
           /\ still' = /\ still
                       /\ frame = RefFrame(frame.id)
                       /\ \A k \in DOMAIN upd :
                            upd[k].matched => upd[k].m.true_match
           /\ solo' = [i \in DOMAIN solo |->
                         SpotsOf(UpdateSpots(solo[i], frame, width, height,
                                 conf.max_shift, conf.match_threshold))]
           /\ IF \E k \in DOMAIN upd : upd[k].outcome = "error"
              THEN /\ out' = out
                   /\ Return("exception")
              ELSE /\ out' = body.out
                   /\ pc' = "write"
                   /\ exit' = exit
    /\ UNCHANGED <<video, data, args, cap, writer, frame, written, frame_idx,
                   conf, steps>>

\* writer.write(out); frame_idx += 1
WriterWrite ==
    /\ pc = "write"
    /\ mark' = mark
    /\ written' = Append(written, out)
    /\ frame_idx' = frame_idx + 1
    /\ pc' = "read"
    /\ UNCHANGED <<exit, video, data, args, cap, writer, spot_templates, frame,
                   out, conf, pre, info, still, solo, twin, steps>>

\* cap.release(); writer.release()
Close ==
    /\ pc = "close"
    /\ mark' = mark
    /\ cap' = ReleaseCap(cap)
    /\ writer' = "released"
    /\ Return("completed")
    /\ UNCHANGED <<video, data, args, spot_templates, frame, out, written,
                   frame_idx, conf, pre, info, still, solo, twin, steps>>

Next ==
    \/ Open
    \/ Validate
    \/ ReferenceRead
    \/ Build
    \/ Rewind
    \/ CapRead
    \/ ProcessFrame
    \/ WriterWrite
    \/ Close

Spec == Init /\ [][Next]_vars

\* Longer videos of one spot, for the drift a track accumulates over frames.
DriftFrames == 3

InitDrift ==
    InitWith([opens : {TRUE}, nframes : 0..DriftFrames],
             [spots : [1..1 -> SpotDefs],
              frame_width : {width},
              frame_height : {height},
              frame_index : {0}],
             [max_shift : {0, 2}, match_threshold : {5},
              darken : {DarkenOne}, debug : {FALSE},
              inpaint_radius : {3}, inpaint_method : {"telea"}])

SpecDrift == InitDrift /\ [][Next]_vars

\* The command line varied in full: --max-shift, --match-threshold, --darken
\* and --debug, on videos whose metadata matches.
ArgFrames == 2

MaxShifts == { 0, 2 }
Thresholds == { -5, 5, 15 }
Darkens == { -5, 3, 5, DarkenOne, 15 }

ArgSpots ==
    { <<s>> : s \in SpotDefs } \cup
    { << [x |-> 6, y |-> 6, radius |-> 1], [x |-> 3, y |-> 9, radius |-> 2] >> }

InitArgs ==
    InitWith([opens : {TRUE}, nframes : 0..ArgFrames],
             [spots : ArgSpots,
              frame_width : {width},
              frame_height : {height},
              frame_index : {0}],
             [max_shift : MaxShifts, match_threshold : Thresholds,
              darken : Darkens, debug : BOOLEAN,
              inpaint_radius : {3}, inpaint_method : {"telea"}])

SpecArgs == InitArgs /\ [][Next]_vars

\* The fill options varied: --darken, --inpaint-radius and --inpaint-method.
FillFrames == 2

InpaintRadii == { 3, 5 }
InpaintMethods == { "telea", "ns" }

InitFill ==
    InitWith([opens : {TRUE}, nframes : 0..FillFrames],
             [spots : ArgSpots,
              frame_width : {width},
              frame_height : {height},
              frame_index : {0}],
             [max_shift : MaxShifts, match_threshold : {5},
              darken : Darkens, debug : {FALSE},
              inpaint_radius : InpaintRadii, inpaint_method : InpaintMethods])

SpecFill == InitFill /\ [][Next]_vars

----------------------------------------------------------------------------
(* mark_spots.py: the marking tool.  The window delivers mouse events to   *)
(* mouse_callback while main() waits for a key; a key or mouse event the   *)
(* code does not handle changes nothing and is left out.                   *)

blur_vars == <<pc, exit, video, data, args, cap, writer, spot_templates, frame,
               out, written, frame_idx, conf, pre, info, still, solo, twin,
               steps>>

\* The clicks of one session.
MaxClicks == 1

\* current_radius = 25
InitialRadius == 25
RadiusStep == 2
MinRadius == 3
MaxRadius == 200

\* Where mouse events arrive.
Points == { <<2, 3>>, <<9, 11>> }

\* The radii at which the session's clicks are explored: the two ends of the
\* range with their neighbours, and every multiple of the initial radius.
\* Key events are explored at every radius.
ClickRadii ==
    { r \in MinRadius..MaxRadius :
        \/ r <= MinRadius + 2
        \/ r >= MaxRadius - 2
        \/ r % InitialRadius = 0 }

\* current_radius += 2; if current_radius > 200: current_radius = 200
GrowRadius(r) == IF r + RadiusStep > MaxRadius THEN MaxRadius ELSE r + RadiusStep

\* current_radius -= 2; if current_radius < 3: current_radius = 3
ShrinkRadius_Unclamped(r) == r - RadiusStep
ShrinkRadius(r) == IF r - RadiusStep < MinRadius THEN MinRadius ELSE r - RadiusStep

\* {"x": int(x), "y": int(y), "radius": int(current_radius)}
NewSpot(x, y, r) == [x |-> x, y |-> y, radius |-> r]

InitMark ==
    /\ video \in [opens : BOOLEAN, nframes : 0..1]
    /\ data = [spots |-> <<>>, frame_width |-> width, frame_height |-> height,
               frame_index |-> 0]
    /\ args = [max_shift |-> 0, match_threshold |-> 0, darken |-> DarkenOne,
               debug |-> FALSE, inpaint_radius |-> 3, inpaint_method |-> "telea"]
    /\ twin = [tracks |-> <<>>, mask |-> {}, fill |-> <<>>]
    /\ pc = "idle"
    /\ exit = "none"
    /\ cap = [state |-> "none", pos |-> 0]
    /\ writer = "none"
    /\ spot_templates = <<>>
    /\ frame = NoFrame
    /\ out = NoOut
    /\ written = <<>>
    /\ frame_idx = 0
    /\ conf = NoConf
    /\ pre = <<>>
    /\ info = <<>>
    /\ still = TRUE
    /\ solo = <<>>
    /\ steps = <<>>
    /\ mark = [NoMark EXCEPT !.pc = "open", !.current_radius = InitialRadius]

\* cap = cv2.VideoCapture(video_path) ... redraw(); cv2.setMouseCallback
MarkOpen ==
    /\ mark.pc = "open"
    /\ IF ~video.opens \/ ~(mark.frame_index < video.nframes)
       THEN mark' = [mark EXCEPT !.pc = "done"]
       ELSE mark' = [mark EXCEPT !.pc = "loop",
                                 !.mouse_x = width \div 2,
                                 !.mouse_y = height \div 2]
    /\ UNCHANGED blur_vars

\* mouse_callback, event == cv2.EVENT_MOUSEMOVE
MouseMove ==
    /\ mark.pc = "loop"
    /\ \E p \in Points :
          mark' = [mark EXCEPT !.mouse_x = p[1], !.mouse_y = p[2]]
    /\ UNCHANGED blur_vars

\* mouse_callback, event == cv2.EVENT_LBUTTONDOWN
LButtonDown ==
    /\ mark.pc = "loop"
    /\ Len(mark.spots) < MaxClicks
    /\ mark.current_radius \in ClickRadii
    /\ \E p \in Points :
          mark' = [mark EXCEPT
                     !.spots = Append(@, NewSpot(p[1], p[2], mark.current_radius)),
                     !.clicked = Append(@, mark.current_radius),
                     !.mouse_x = p[1], !.mouse_y = p[2]]
    /\ UNCHANGED blur_vars

\* key in (ord('q'), 27): spots = []; break
KeyQuit ==
    /\ mark.pc = "loop"
    /\ mark' = [mark EXCEPT !.spots = <<>>, !.pc = "closing"]
    /\ UNCHANGED blur_vars

\* key == ord('s'): break
KeySave ==
    /\ mark.pc = "loop"
    /\ mark' = [mark EXCEPT !.pc = "closing"]
    /\ UNCHANGED blur_vars

\* key == ord('+') or key == ord('=')
KeyPlus ==
    /\ mark.pc = "loop"
    /\ mark' = [mark EXCEPT !.current_radius = GrowRadius(@)]
    /\ UNCHANGED blur_vars

\* key == ord('-') or key == ord('_')
KeyMinus ==
    /\ mark.pc = "loop"
    /\ mark' = [mark EXCEPT !.current_radius = ShrinkRadius(@)]
    /\ UNCHANGED blur_vars

\* after the loop: if not spots: return; json.dump(data, f)
MarkSave ==
    /\ mark.pc = "closing"
    /\ IF mark.spots = <<>>
       THEN mark' = [mark EXCEPT !.pc = "done"]
       ELSE mark' = [mark EXCEPT
                       !.pc = "done",
                       !.file = [frame_index |-> mark.frame_index,
                                 frame_width |-> width,
                                 frame_height |-> height,
                                 spots |-> mark.spots]]
    /\ UNCHANGED blur_vars

NextMark ==
    \/ MarkOpen
    \/ MouseMove
    \/ LButtonDown
    \/ KeyQuit
    \/ KeySave
    \/ KeyPlus
    \/ KeyMinus
    \/ MarkSave

SpecMark == InitMark /\ [][NextMark]_vars

----------------------------------------------------------------------------
(* Properties *)

\* The part of the interval [lo, hi) that lies inside an axis of length n.
ClipLen(lo, hi, n) == Max(0, Min(n, hi) - Max(0, lo))

Tracks == DOMAIN spot_templates
Updated == DOMAIN info

\* The spot's box [x-half, x+half) x [y-half, y+half) clipped to the frame.
BoxW(cx0, r) == ClipLen(cx0 - (r + margin), cx0 + (r + margin), width)
BoxH(cy0, r) == ClipLen(cy0 - (r + margin), cy0 + (r + margin), height)

\* A track whose spot's box meets the frame.
BoxInFrame(t) ==
    /\ BoxW(t.origin_cx, t.radius) > 0
    /\ BoxH(t.origin_cy, t.radius) > 0

\* A track whose spot's center is a pixel of the frame.
OriginInFrame(t) ==
    /\ 0 <= t.origin_cx /\ t.origin_cx <= width - 1
    /\ 0 <= t.origin_cy /\ t.origin_cy <= height - 1

\* C1: no-motion invariant.  While every processed frame has been identical
\* to the reference frame and every match was the template's own place in
\* it, every track has lastCenter equal to originCenter, tracks whose
\* template was clipped by a frame edge included.  Stated for the tracks
\* whose spot center lies in the frame.
C1_NoMotion ==
    still => \A k \in Tracks :
                OriginInFrame(spot_templates[k]) =>
                    /\ spot_templates[k].last_cx = spot_templates[k].origin_cx
                    /\ spot_templates[k].last_cy = spot_templates[k].origin_cy

\* C2: bounds invariant.  Once a frame's tracker updates have run, every
\* track (of a spot whose box meets the frame) has lastCenter in
\* [0, width-1] x [0, height-1], whether the update accepted or held.
C2_Bounds ==
    \A k \in Updated :
        BoxInFrame(spot_templates[k]) =>
            /\ 0 <= spot_templates[k].last_cx
            /\ spot_templates[k].last_cx <= width - 1
            /\ 0 <= spot_templates[k].last_cy
            /\ spot_templates[k].last_cy <= height - 1

\* The center an accepted match gives: roi top-left + match offset + half
\* template, clamped into the frame.
AcceptedCx(k) ==
    Max(0, Min(info[k].roi.roi_x1 + info[k].m.u + (pre[k].templ_w \div 2),
               width - 1))
AcceptedCy(k) ==
    Max(0, Min(info[k].roi.roi_y1 + info[k].m.v + (pre[k].templ_h \div 2),
               height - 1))

\* C3: hold on weak match.  A tracker update whose best score is strictly
\* below matchThreshold leaves every field of the track as it was; a score
\* equal to (or above) the threshold is accepted and moves lastCenter to the
\* matched place.
C3_HoldOnWeakMatch ==
    \A k \in Updated :
        info[k].matched =>
            /\ info[k].m.max_val < conf.match_threshold =>
                   spot_templates[k] = pre[k]
            /\ info[k].m.max_val >= conf.match_threshold =>
                   /\ info[k].outcome = "accept"
                   /\ spot_templates[k].last_cx = AcceptedCx(k)
                   /\ spot_templates[k].last_cy = AcceptedCy(k)

\* C3 witness: a weak score held a track although the frame's content had
\* moved inside the search window.
C3_Witness ==
    \E k \in Updated :
        /\ pc = "write"
        /\ info[k].matched
        /\ info[k].m.true_match
        /\ info[k].m.max_val < conf.match_threshold
        /\ frame.dx # 0
        /\ spot_templates[k] = pre[k]

\* C4: hold on small roi.  Every tracker update ends in accept or hold; when
\* the search window clipped to the frame is narrower or shorter than the
\* template, no matching is done and the track is left unchanged.  Stated
\* for the tracks of spots whose box meets the frame.
C4_HoldOnSmallRoi ==
    \A k \in Updated :
        /\ info[k].outcome \in {"accept", "hold"}
        /\ ( /\ BoxInFrame(pre[k])
             /\ \/ ClipLen(info[k].roi.lo_x, info[k].roi.hi_x, width)
                       < pre[k].templ_w
                \/ ClipLen(info[k].roi.lo_y, info[k].roi.hi_y, height)
                       < pre[k].templ_h )
           => /\ ~info[k].matched
              /\ spot_templates[k] = pre[k]

\* The spots a run of TemplateBuilder is to keep.
KeptSpots == { i \in DOMAIN data.spots :
                 /\ BoxW(data.spots[i].x, data.spots[i].radius) > 0
                 /\ BoxH(data.spots[i].y, data.spots[i].radius) > 0 }

Built == \E n \in DOMAIN steps : steps[n] = "build"

\* C5: TemplateBuilder discards a spot exactly when its box clipped to the
\* frame has zero width or zero height, and the template of every track it
\* creates is that clipped box, which is not empty.
C5_DiscardEmpty ==
    Built =>
        /\ Len(spot_templates) = Cardinality(KeptSpots)
        /\ \A k \in Tracks :
              /\ spot_templates[k].templ_w =
                    BoxW(spot_templates[k].origin_cx, spot_templates[k].radius)
              /\ spot_templates[k].templ_h =
                    BoxH(spot_templates[k].origin_cy, spot_templates[k].radius)
              /\ spot_templates[k].templ_w > 0
              /\ spot_templates[k].templ_h > 0

RECURSIVE Concat(_)
Concat(ss) == IF ss = <<>> THEN <<>> ELSE Head(ss) \o Concat(Tail(ss))

\* C6: independence.  After every frame the tracks of the run are, in spot
\* order, the tracks each spot has when it is tracked alone on the same
\* frames with the same maxShift and matchThreshold.
C6_Independence == spot_templates = Concat(solo)

\* C6 witness: two tracks that a frame moved to different places.
C6_Witness ==
    /\ Len(spot_templates) = 2
    /\ Len(info) = 2
    /\ spot_templates[1] # pre[1]
    /\ spot_templates[2] # pre[2]
    /\ spot_templates[1].last_cx # spot_templates[2].last_cx

StageOrder == <<"open", "validate", "refread", "build", "rewind">>

FatalInput ==
    \/ ~video.opens
    \/ width # data.frame_width
    \/ height # data.frame_height
    \/ data.frame_index >= video.nframes

\* C7: no fatal path writes output.  When the input does not open, its
\* resolution differs from the metadata or the reference frame cannot be
\* read, the run never opens the writer, never processes or writes a frame
\* and ends with the matching fatal exit; the stages run in the order open,
\* validate, reference read, build.
C7_NoFatalWrites ==
    /\ FatalInput =>
          /\ writer = "none"
          /\ written = <<>>
          /\ info = <<>>
          /\ frame_idx = 0
          /\ spot_templates = <<>>
          /\ pc = "done" =>
                exit \in {"fatal_open", "fatal_resolution", "fatal_reference"}
    /\ exit \in {"fatal_open", "fatal_resolution", "fatal_reference"} =>
          FatalInput /\ pc = "done"
    /\ Len(steps) <= Len(StageOrder)
    /\ \A n \in DOMAIN steps : steps[n] = StageOrder[n]

\* C7 witness: the reference frame could not be read from a stream that
\* opened with the right resolution.
C7_Witness ==
    /\ pc = "done"
    /\ exit = "fatal_reference"
    /\ data.spots # <<>>

\* C8: nothing to do.  When TemplateBuilder yields no track the run ends
\* cleanly: the writer is never opened, nothing is written and the input
\* stream is released.
C8_NothingToDo ==
    (Built /\ spot_templates = <<>>) =>
        /\ pc = "done"
        /\ exit = "nothing_to_do"
        /\ writer = "none"
        /\ written = <<>>
        /\ cap.state = "released"

\* C8 witness: a non-empty spot list of which every definition was discarded.
C8_Witness ==
    /\ exit = "nothing_to_do"
    /\ data.spots # <<>>

\* C9: resource release.  When main() has returned, the capture is released
\* if it was opened and the writer is released if it was opened.
C9_ResourceRelease ==
    pc = "done" =>
        /\ exit \in {"fatal_open", "fatal_resolution", "fatal_reference",
                     "nothing_to_do", "completed"}
        /\ cap.state \in {"failed", "released"}
        /\ exit = "fatal_open" <=> cap.state = "failed"
        /\ writer \in {"none", "released"}
        /\ exit = "completed" <=> writer = "released"

\* C9 witness: a completed run that wrote frames, both handles released.
C9_Witness ==
    /\ pc = "done"
    /\ exit = "completed"
    /\ written # <<>>
    /\ cap.state = "released"
    /\ writer = "released"

\* C10: frame order and count.  The k-th frame written is the processed
\* k-th frame of the stream, counted from frame 0; a frame read is written
\* before the next is read; a completed run wrote every frame of the stream.
C10_FrameOrder ==
    /\ \A k \in DOMAIN written : written[k].id = k - 1
    /\ Len(written) = frame_idx
    /\ pc \in {"read", "close"} => cap.pos = Len(written)
    /\ pc = "process" => cap.pos = Len(written) + 1 /\ frame.id = Len(written)
    /\ pc = "write" => cap.pos = Len(written) + 1 /\ out.id = Len(written)
    /\ exit = "completed" => Len(written) = video.nframes

\* C10 witness: a completed run whose reference frame was not frame 0 and
\* that wrote the frames before it as well.
C10_Witness ==
    /\ exit = "completed"
    /\ data.frame_index > 0
    /\ Len(written) > data.frame_index

Abs(a) == IF a >= 0 THEN a ELSE -a

\* A track whose template was cut whole: no side of the spot's box was
\* clipped by a frame edge.
WholeTemplate(t) ==
    /\ t.templ_w = 2 * (t.radius + margin)
    /\ t.templ_h = 2 * (t.radius + margin)
    /\ t.template.x = t.origin_cx - (t.radius + margin)
    /\ t.template.y = t.origin_cy - (t.radius + margin)

\* An update whose search region lay inside the frame before clipping.
WholeRoi(g) ==
    /\ 0 <= g.lo_x /\ g.hi_x <= width
    /\ 0 <= g.lo_y /\ g.hi_y <= height

ShiftX(t, f) == (t.template.x + f.dx) - (t.last_cx - t.templ_w \div 2)
ShiftY(t, f) == (t.template.y + f.dy) - (t.last_cy - t.templ_h \div 2)

\* C13: shift tracking.  For a track whose template and search region are
\* not clipped by a frame edge: when the frame shows the template content
\* displaced by (dx, dy) from its place around the previous lastCenter, with
\* |dx| and |dy| at most maxShift and a score at or above matchThreshold,
\* the update leaves lastCenter at the previous lastCenter plus (dx, dy).
C13_ShiftTracking ==
    pc = "write" =>
        \A k \in Updated :
            ( /\ WholeTemplate(pre[k])
              /\ WholeRoi(info[k].roi)
              /\ Abs(ShiftX(pre[k], frame)) <= conf.max_shift
              /\ Abs(ShiftY(pre[k], frame)) <= conf.max_shift
              /\ frame.sc >= conf.match_threshold )
            => /\ spot_templates[k].last_cx
                    = pre[k].last_cx + ShiftX(pre[k], frame)
               /\ spot_templates[k].last_cy
                    = pre[k].last_cy + ShiftY(pre[k], frame)

\* C13 witness: such an update with a displacement that is not zero.
C13_Witness ==
    /\ pc = "write"
    /\ \E k \in Updated :
        /\ WholeTemplate(pre[k])
        /\ WholeRoi(info[k].roi)
        /\ Abs(ShiftX(pre[k], frame)) <= conf.max_shift
        /\ Abs(ShiftY(pre[k], frame)) <= conf.max_shift
        /\ frame.sc >= conf.match_threshold
        /\ ShiftX(pre[k], frame) # 0
        /\ info[k].outcome = "accept"
        /\ spot_templates[k].last_cx = pre[k].last_cx + ShiftX(pre[k], frame)

\* C14: bounded per-frame search.  In any tracker update (of a spot whose
\* box meets the frame) an accepted new lastCenter differs from the previous
\* lastCenter by at most maxShift in each axis.
C14_BoundedSearch ==
    \A k \in Updated :
        (BoxInFrame(pre[k]) /\ info[k].outcome = "accept") =>
            /\ Abs(spot_templates[k].last_cx - pre[k].last_cx)
                   <= info[k].roi.max_shift
            /\ Abs(spot_templates[k].last_cy - pre[k].last_cy)
                   <= info[k].roi.max_shift

\* The same for the tracks of spots whose center is a pixel of the frame.
BoundedSearch_OriginInFrame ==
    \A k \in Updated :
        (OriginInFrame(pre[k]) /\ info[k].outcome = "accept") =>
            /\ Abs(spot_templates[k].last_cx - pre[k].last_cx)
                   <= info[k].roi.max_shift
            /\ Abs(spot_templates[k].last_cy - pre[k].last_cy)
                   <= info[k].roi.max_shift

\* C15: debug non-interference.  The run with the debug flag flipped, on the
\* same frames, spots and configuration, has the same track state after
\* every frame and the same mask in every frame; the frame about to be
\* written carries exactly one outline circle per alive track, at its
\* lastCenter with its radius, when debug is on and none when it is off.
C15_DebugNonInterference ==
    /\ twin.tracks = spot_templates
    /\ pc = "write" =>
          /\ twin.mask = out.mask
          /\ out.mask = MaskOf(spot_templates)
          /\ out.circles = IF args.debug THEN MaskOf(spot_templates) ELSE {}

\* C15 witness: a debug run about to write a frame with a circle on it, for
\* a track that moved in this frame.
C15_Witness ==
    /\ pc = "write"
    /\ args.debug
    /\ out.circles # {}
    /\ \E k \in Updated :
        /\ info[k].outcome = "accept"
        /\ spot_templates[k].last_cx # pre[k].last_cx
        /\ <<spot_templates[k].last_cx, spot_templates[k].last_cy,
             spot_templates[k].radius>> \in out.circles

Clamped01(a) == IF a < 0 THEN 0 ELSE IF a > ScoreOne THEN ScoreOne ELSE a

\* C17: configuration coercion.  Every tracker invocation uses maxShift =
\* max(1, supplied) and matchThreshold = the supplied value clamped into
\* [0, 1]; the two values are set before the first frame is read and are the
\* same in every state of the loop.
C17_Coercion ==
    /\ \A k \in Updated :
          info[k].called =>
              /\ info[k].roi.max_shift
                    = (IF args.max_shift >= 1 THEN args.max_shift ELSE 1)
              /\ info[k].roi.match_threshold = Clamped01(args.match_threshold)
    /\ pc \in {"read", "process", "write", "close"} =>
          /\ conf.max_shift = (IF args.max_shift >= 1 THEN args.max_shift ELSE 1)
          /\ conf.match_threshold = Clamped01(args.match_threshold)

\* C17 witness: the second frame's update of a run with --max-shift 0 and
\* --match-threshold 1.5, searched one pixel around and matched against 1.0.
C17_Witness ==
    /\ pc = "write"
    /\ Len(written) = 1
    /\ args.max_shift = 0
    /\ args.match_threshold = 15
    /\ \E k \in Updated :
        /\ info[k].matched
        /\ info[k].roi.max_shift = 1
        /\ info[k].roi.match_threshold = ScoreOne

\* C18: roi size.  For every update of a track (of a spot whose center is a
\* pixel of the frame) the search region before clipping is centered on
\* lastCenter and is templateWidth + 2*maxShift wide and templateHeight +
\* 2*maxShift high, odd template sides included.
C18_RoiSize ==
    \A k \in Updated :
        (OriginInFrame(pre[k]) /\ info[k].called) =>
            /\ info[k].roi.hi_x - info[k].roi.lo_x
                  = pre[k].templ_w + 2 * info[k].roi.max_shift
            /\ info[k].roi.hi_y - info[k].roi.lo_y
                  = pre[k].templ_h + 2 * info[k].roi.max_shift
            /\ info[k].roi.lo_x + info[k].roi.hi_x = 2 * pre[k].last_cx
            /\ info[k].roi.lo_y + info[k].roi.hi_y = 2 * pre[k].last_cy

\* The same for the tracks whose template sides are both even.
RoiSize_EvenTemplate ==
    \A k \in Updated :
        ( /\ OriginInFrame(pre[k]) /\ info[k].called
          /\ pre[k].templ_w % 2 = 0 /\ pre[k].templ_h % 2 = 0 ) =>
            /\ info[k].roi.hi_x - info[k].roi.lo_x
                  = pre[k].templ_w + 2 * info[k].roi.max_shift
            /\ info[k].roi.hi_y - info[k].roi.lo_y
                  = pre[k].templ_h + 2 * info[k].roi.max_shift

\* C19: template dimensions.  For every track of a spot (x, y, radius) whose
\* center is a pixel of the frame, templateWidth = min(width, x + radius + 4)
\* - max(0, x - radius - 4) and templateHeight likewise; both are at least 1
\* and at most 2*(radius + 4), and a side equals 2*(radius + 4) exactly when
\* the box is not clipped on that axis.
C19_TemplateDims ==
    \A k \in Tracks :
        LET t == spot_templates[k]
            x == t.origin_cx
            y == t.origin_cy
            full == 2 * (t.radius + 4)
        IN  OriginInFrame(t) =>
              /\ t.templ_w = Min(width, x + t.radius + 4)
                                - Max(0, x - t.radius - 4)
              /\ t.templ_h = Min(height, y + t.radius + 4)
                                - Max(0, y - t.radius - 4)
              /\ 1 <= t.templ_w /\ t.templ_w <= full
              /\ 1 <= t.templ_h /\ t.templ_h <= full
              /\ t.templ_w = full <=>
                    (0 <= x - t.radius - 4 /\ x + t.radius + 4 <= width)
              /\ t.templ_h = full <=>
                    (0 <= y - t.radius - 4 /\ y + t.radius + 4 <= height)

\* C19 witness: two tracks built from one file, one with a whole 10 x 10
\* template and one with a template clipped to 9 x 9 by two frame edges.
C19_Witness ==
    /\ pc = "rewind"
    /\ \E j, k \in Tracks :
        /\ OriginInFrame(spot_templates[j])
        /\ spot_templates[j].templ_w = 2 * (spot_templates[j].radius + 4)
        /\ spot_templates[j].templ_h = 2 * (spot_templates[j].radius + 4)
        /\ OriginInFrame(spot_templates[k])
        /\ spot_templates[k].templ_w < 2 * (spot_templates[k].radius + 4)
        /\ spot_templates[k].templ_h < 2 * (spot_templates[k].radius + 4)

\* C20: the clamp is a no-op.  Whenever a match is accepted, the center
\* roi top-left + match offset + half template lies in [0, width-1] x
\* [0, height-1] before it is clamped, and the stored lastCenter is that
\* center.
C20_ClampNoOp ==
    \A k \in Updated :
        info[k].outcome = "accept" =>
            /\ 0 <= info[k].roi.cx_new /\ info[k].roi.cx_new <= width - 1
            /\ 0 <= info[k].roi.cy_new /\ info[k].roi.cy_new <= height - 1
            /\ spot_templates[k].last_cx = info[k].roi.cx_new
            /\ spot_templates[k].last_cy = info[k].roi.cy_new

\* C20 witness: an accepted match in a search region that was clipped by
\* the top and bottom frame edges, found at the last row of the result array.
C20_Witness ==
    /\ pc = "write"
    /\ \E k \in Updated :
        /\ info[k].outcome = "accept"
        /\ WholeTemplate(pre[k])
        /\ info[k].roi.lo_y < 0
        /\ info[k].roi.hi_y > height
        /\ info[k].m.v = info[k].roi.roi_h - pre[k].templ_h
        /\ info[k].m.v > 0

\* An update that held because the clipped roi was smaller than the template.
SmallRoiHold(i) == i.called /\ ~i.matched /\ i.outcome = "hold"

\* C21: permanent freeze.  When a track held in the last processed frame
\* because its clipped roi was smaller than its template, it holds for the
\* same reason in the next frame processed, its record is left as it was,
\* and it is alive and stamped into that frame's mask at the same center.
C21_PermanentFreeze ==
    [][ \A k \in DOMAIN info :
          (pc = "process" /\ SmallRoiHold(info[k])) =>
              /\ SmallRoiHold(info'[k])
              /\ spot_templates'[k] = spot_templates[k]
              /\ spot_templates'[k].alive
              /\ pc' = "write" =>
                    <<spot_templates[k].last_cx, spot_templates[k].last_cy,
                      spot_templates[k].radius>> \in out'.mask ]_vars

\* C21 witness: the third frame of a run is about to be written, the track
\* of a spot inside the frame holds in it on a too-small roi, and it was
\* masked at this same center, its origin, in both frames written before.
C21_Witness ==
    /\ pc = "write"
    /\ Len(written) = 2
    /\ \E k \in Updated :
        LET disk == <<spot_templates[k].last_cx, spot_templates[k].last_cy,
                      spot_templates[k].radius>>
        IN  /\ OriginInFrame(spot_templates[k])
            /\ SmallRoiHold(info[k])
            /\ spot_templates[k].last_cx = spot_templates[k].origin_cx
            /\ spot_templates[k].last_cy = spot_templates[k].origin_cy
            /\ written[1].mask = {disk}
            /\ written[2].mask = {disk}
            /\ out.mask = {disk}
            /\ out.inpainted

\* C22: tracking is independent of the fill configuration.  The run on the
\* same frames and spots with the same maxShift and matchThreshold but
\* another darken factor, inpaint radius and inpaint method has the same
\* track records, lastCenter included, after every frame.
C22_FillIndependence ==
    /\ DOMAIN twin.fill = DOMAIN spot_templates
    /\ \A k \in Tracks :
          /\ twin.fill[k].last_cx = spot_templates[k].last_cx
          /\ twin.fill[k].last_cy = spot_templates[k].last_cy
          /\ twin.fill[k] = spot_templates[k]

\* C22 witness: a frame filled with a radius, a method and a darken factor
\* that are not the defaults, written differently from the default run's, in
\* which a track moved.
C22_Witness ==
    /\ pc = "write"
    /\ Len(written) = 1
    /\ args.darken < DarkenOne
    /\ out.fill = [radius |-> 5, flags |-> "INPAINT_NS"]
    /\ out.under # Unchanged
    /\ \E k \in Updated :
        /\ info[k].outcome = "accept"
        /\ spot_templates[k].last_cx # pre[k].last_cx
        /\ twin.fill[k].last_cx = spot_templates[k].last_cx

\* C23: marking-tool radius invariant.  current_radius stays in [3, 200]
\* from the start of the session on; every spot recorded by a click, and
\* every spot in the written file, has a radius in [3, 200] that is the
\* radius in effect at its click, whatever the radius became afterwards.
C23_RadiusInvariant ==
    /\ mark.pc \in {"open", "loop", "closing", "done"} =>
          MinRadius <= mark.current_radius /\ mark.current_radius <= MaxRadius
    /\ \A k \in DOMAIN mark.spots :
          /\ MinRadius <= mark.spots[k].radius
          /\ mark.spots[k].radius <= MaxRadius
          /\ mark.spots[k].radius > 0
          /\ mark.spots[k].radius = mark.clicked[k]
    /\ \A k \in DOMAIN mark.file.spots :
          /\ MinRadius <= mark.file.spots[k].radius
          /\ mark.file.spots[k].radius <= MaxRadius
          /\ mark.file.spots[k].radius = mark.clicked[k]

\* C23 witness: a file written with a spot clicked at the smallest radius,
\* after the radius had been raised to the largest.
C23_Witness ==
    /\ mark.pc = "done"
    /\ mark.file.spots # <<>>
    /\ mark.file.spots[1].radius = MinRadius
    /\ mark.current_radius = MaxRadius

====
